---- MODULE Spec2Model ----
\* Prompt conversion and request handling of the edge runtime:
\* packages/react/src/runtimes/edge/createEdgeRuntimeAPI.ts
EXTENDS Integers, Sequences, FiniteSets, TLC

\* ---------------------------------------------------------------- bounds
\* longest assistant message content explored by the splitter specification
MaxParts == 4
\* longest user message content explored on its own
MaxUserParts == 3
\* longest conversation explored by the conversion specification
MaxMessages == 3
\* longest conversation of a request body
MaxBodyMessages == 2
\* most events a backend stream produces
MaxEvents == 3

\* ---------------------------------------------------------------- values
\* JavaScript values are modelled as strings; the two below stand for the
\* values `undefined` (also: property missing) and `null`.
Undefined == "<undefined>"
Null == "<null>"

\* ToBoolean of a value (the empty string is falsy, like 0, false, null)
Truthy(v) == v \notin {Undefined, Null, ""}

TextPart(t) == [type |-> "text", text |-> t]
ToolCallPart(id, name, result) ==
  [type |-> "tool-call", toolCallId |-> id, toolName |-> name,
   args |-> "{q:" \o id \o "}", result |-> result]
ImagePart(ref) == [type |-> "image", image |-> ref]
\* a part whose type none of the switches handles
UnknownPart == [type |-> "audio"]

\* outcome of a call: a returned value or a thrown error
Return(v) == [threw |-> FALSE, value |-> v, error |-> ""]
Throw(e) == [threw |-> TRUE, value |-> <<>>, error |-> e]

SeqsUpTo(S, n) == UNION {[1..k -> S] : k \in 0..n}

\* ---------------------------------------------------------------- splitter
EmptyAssistantMessage == [role |-> "assistant", content |-> <<>>]
EmptyToolMessage == [role |-> "tool", content |-> <<>>]

assistantMessageSplitter ==
  [stash |-> <<>>,
   assistantMessage |-> EmptyAssistantMessage,
   toolMessage |-> EmptyToolMessage]

\* addTextContentPart whose rotation replaces the stash by the current pair
addTextContentPartOverwritesStash(s, part) ==
  LET r == IF Len(s.toolMessage.content) > 0
           THEN [stash |-> <<s.assistantMessage>> \o <<s.toolMessage>>,
                 assistantMessage |-> EmptyAssistantMessage,
                 toolMessage |-> EmptyToolMessage]
           ELSE s
  IN [r EXCEPT !.assistantMessage.content = Append(@, part)]

\* addTextContentPart rotating on every text part
addTextContentPartAlwaysRotates(s, part) ==
  LET r == [stash |-> s.stash \o <<s.assistantMessage>> \o <<s.toolMessage>>,
            assistantMessage |-> EmptyAssistantMessage,
            toolMessage |-> EmptyToolMessage]
  IN [r EXCEPT !.assistantMessage.content = Append(@, part)]

addTextContentPart(s, part) ==
  LET r == IF Len(s.toolMessage.content) > 0
           THEN [stash |-> s.stash \o <<s.assistantMessage>> \o <<s.toolMessage>>,
                 assistantMessage |-> EmptyAssistantMessage,
                 toolMessage |-> EmptyToolMessage]
           ELSE s
  IN [r EXCEPT !.assistantMessage.content = Append(@, part)]

addToolCallPart(s, part) ==
  LET a == [s EXCEPT !.assistantMessage.content =
              Append(@, [type |-> "tool-call", toolCallId |-> part.toolCallId,
                         toolName |-> part.toolName, args |-> part.args])]
  IN IF Truthy(part.result)
     THEN [a EXCEPT !.toolMessage.content =
             Append(@, [type |-> "tool-result", toolCallId |-> part.toolCallId,
                        toolName |-> part.toolName, result |-> part.result])]
     ELSE a

\* getMessages with the pair emitted tool message first
getMessagesToolFirst(s) ==
  IF Len(s.toolMessage.content) > 0
  THEN s.stash \o <<s.toolMessage>> \o <<s.assistantMessage>>
  ELSE s.stash \o <<s.assistantMessage>>

\* getMessages without the test for an empty tool message
getMessagesAlwaysPair(s) ==
  s.stash \o <<s.assistantMessage>> \o <<s.toolMessage>>

\* getMessages leaving out an assistant message without content
getMessagesElideEmpty(s) ==
  IF Len(s.toolMessage.content) > 0
  THEN s.stash \o <<s.assistantMessage>> \o <<s.toolMessage>>
  ELSE IF Len(s.assistantMessage.content) > 0
       THEN s.stash \o <<s.assistantMessage>>
       ELSE s.stash

getMessages(s) ==
  IF Len(s.toolMessage.content) > 0
  THEN s.stash \o <<s.assistantMessage>> \o <<s.toolMessage>>
  ELSE s.stash \o <<s.assistantMessage>>

\* ---------------------------------------------------------------- URL
\* `new URL(ref)`: parses an absolute reference into a locator whose href is
\* the normalised serialisation; anything else throws a TypeError.
URLhref(ref) ==
  CASE ref = "HTTPS://A.TEST" -> "https://a.test/"
    [] ref = "https://a.test/cat.png" -> "https://a.test/cat.png"
    [] OTHER -> ""

\* The URL object is written URL{href}, a value no reference string equals.
URL(ref) ==
  IF URLhref(ref) # ""
  THEN Return("URL{" \o URLhref(ref) \o "}")
  ELSE Throw("TypeError: Invalid URL")

\* ---------------------------------------------------------------- messages
\* the callback passing an image part through without parsing its reference
convertUserPartUnparsed(part) ==
  CASE part.type = "text" -> Return(part)
    [] part.type = "image" ->
         IF URL(part.image).threw THEN URL(part.image) ELSE Return(part)
    [] OTHER -> Throw("Unspported content part type")

\* the callback of message.content.map in `case "user"`
convertUserPart(part) ==
  CASE part.type = "text" -> Return(part)
    [] part.type = "image" ->
         IF URL(part.image).threw
         THEN URL(part.image)
         ELSE Return([type |-> "image", image |-> URL(part.image).value])
    [] OTHER -> Throw("Unspported content part type")

RECURSIVE mapUserContent(_)
mapUserContent(parts) ==
  IF parts = <<>> THEN Return(<<>>)
  ELSE LET h == convertUserPart(Head(parts))
       IN IF h.threw THEN h
          ELSE LET t == mapUserContent(Tail(parts))
               IN IF t.threw THEN t ELSE Return(<<h.value>> \o t.value)

\* the for-loop of `case "assistant"` from splitter state s over parts
RECURSIVE visitParts(_, _)
visitParts(s, parts) ==
  IF parts = <<>> THEN Return(getMessages(s))
  ELSE LET part == Head(parts)
       IN CASE part.type = "text" ->
                 visitParts(addTextContentPart(s, part), Tail(parts))
            [] part.type = "tool-call" ->
                 visitParts(addToolCallPart(s, part), Tail(parts))
            [] OTHER -> Throw("Unhandled content part type")

convertToLanguageModelMessage(message) ==
  CASE message.role = "system" ->
         Return(<<[role |-> "system", content |-> message.content[1].text]>>)
    [] message.role = "user" ->
         LET c == mapUserContent(message.content)
         IN IF c.threw THEN c
            ELSE Return(<<[role |-> "user", content |-> c.value]>>)
    [] message.role = "assistant" ->
         visitParts(assistantMessageSplitter, message.content)
    [] OTHER -> Throw("Unknown message role")

\* Array.prototype.flat(1) of the mapped per-message arrays
RECURSIVE Flatten(_)
Flatten(arrays) ==
  IF arrays = <<>> THEN <<>> ELSE Head(arrays) \o Flatten(Tail(arrays))

\* `if (system)` in place of `system != null`
SystemTruthy(sys) == Truthy(sys)

\* `system != null`
SystemPresent(sys) == sys \notin {Null, Undefined}

\* ---------------------------------------------------------------- inputs
AssistantParts ==
  {TextPart("x"), TextPart("y"),
   ToolCallPart("A", "search", Undefined), ToolCallPart("A", "search", ""),
   ToolCallPart("A", "search", "42"),
   ToolCallPart("B", "calc", Undefined), ToolCallPart("B", "calc", "ok"),
   UnknownPart}

UserParts ==
  {TextPart("hi"), ImagePart("HTTPS://A.TEST"),
   ImagePart("https://a.test/cat.png"), ImagePart("cat.png"), UnknownPart}

Msg(role, parts) == [role |-> role, content |-> parts]

SystemMessages == {Msg("system", <<TextPart("s1"), TextPart("s2")>>)}
\* a role none of the cases handles
UnknownRoleMessages == {Msg("function", <<>>)}

\* a single message of any role, with the longer contents
SingleMessages ==
  {Msg("assistant", c) : c \in SeqsUpTo(AssistantParts, MaxParts)}
    \cup {Msg("user", c) : c \in SeqsUpTo(UserParts, MaxUserParts)}
    \cup SystemMessages \cup UnknownRoleMessages

\* the messages conversations are made of: every role, contents that split,
\* stay pending, are empty, and every way a message can be malformed
ConvMessages ==
  {Msg("assistant", <<ToolCallPart("A", "search", "42"), TextPart("x"),
                      ToolCallPart("B", "calc", "ok")>>),
   Msg("assistant", <<TextPart("y"), ToolCallPart("B", "calc", Undefined)>>),
   Msg("assistant", <<ToolCallPart("A", "search", "")>>),
   Msg("assistant", <<>>),
   Msg("assistant", <<TextPart("x"), UnknownPart>>),
   Msg("user", <<TextPart("hi"), ImagePart("HTTPS://A.TEST")>>),
   Msg("user", <<TextPart("hi"), ImagePart("cat.png")>>),
   Msg("user", <<UnknownPart>>)}
    \cup SystemMessages \cup UnknownRoleMessages

Systems == {Undefined, Null, "", "be terse"}

VARIABLES
  system,     \* argument `system` of convertToLanguageModelPrompt
  messages,   \* argument `messages` of convertToLanguageModelPrompt
  cpc,        \* position inside convertToLanguageModelPrompt
  i,          \* number of messages flatMap has passed to the callback
  pos,        \* number of parts of messages[i+1] visited
  splitter,   \* closure state of the splitter of the current assistant message
  userContent,\* array built by message.content.map of the current user message
  mapped,     \* the arrays the flatMap callback has returned so far
  languageModelMessages, \* the local array of convertToLanguageModelPrompt
  prompt,     \* the returned prompt (meaningful when cpc = "returned")
  body,       \* the parsed JSON body of the request POST handles
  ppc,        \* position inside POST / streamMessage ("direct": no request)
  callOptions,\* the argument model.doStream was called with
  response,   \* the Response POST resolved with
  tools,      \* parameter `tools` of streamMessage
  toolChoice, \* parameter `toolChoice` of streamMessage
  backendResult, \* warnings and rawResponse as model.doStream resolved them
  result,     \* the value streamMessage resolved with
  produced,   \* the native events the backend stream has produced
  encoded,    \* the chunks assistantEncoderStream has put out
  bytes,      \* the chunks TextEncoderStream has put out (read by the consumer)
  other,      \* the locals of a second, suspended conversion
  interleaved \* both conversions were under way at a switch

streamVars == <<tools, toolChoice, backendResult, result, produced, encoded, bytes>>
concVars == <<other, interleaved>>
convVars == <<system, messages, cpc, i, pos, splitter, userContent, mapped,
              languageModelMessages, prompt>>
postVars == <<body, ppc, callOptions, response, streamVars, concVars>>
vars == <<convVars, postVars>>

message == messages[i + 1]
part == message.content[pos + 1]

\* ---- convertToLanguageModelPrompt, lines 87-91
BeginPrompt ==
  /\ cpc = "start"
  /\ languageModelMessages' =
       IF SystemPresent(system)
       THEN <<[role |-> "system", content |-> system]>>
       ELSE <<>>
  /\ cpc' = "flatMap"
  /\ UNCHANGED postVars
  /\ UNCHANGED <<system, messages, i, pos, splitter, userContent, mapped, prompt>>

\* ---- convertToLanguageModelMessage, one callback invocation of flatMap
ConvertSystem ==
  /\ cpc = "flatMap" /\ i < Len(messages)
  /\ message.role = "system"
  /\ mapped' = Append(mapped, <<[role |-> "system", content |-> message.content[1].text]>>)
  /\ i' = i + 1
  /\ UNCHANGED postVars
  /\ UNCHANGED <<system, messages, cpc, pos, splitter, userContent,
                 languageModelMessages, prompt>>

BeginUser ==
  /\ cpc = "flatMap" /\ i < Len(messages)
  /\ message.role = "user"
  /\ cpc' = "user"
  /\ pos' = 0
  /\ userContent' = <<>>
  /\ UNCHANGED postVars
  /\ UNCHANGED <<system, messages, i, splitter, mapped, languageModelMessages, prompt>>

MapUserPart ==
  /\ cpc = "user" /\ pos < Len(message.content)
  /\ ~convertUserPart(part).threw
  /\ userContent' = Append(userContent, convertUserPart(part).value)
  /\ pos' = pos + 1
  /\ UNCHANGED postVars
  /\ UNCHANGED <<system, messages, cpc, i, splitter, mapped,
                 languageModelMessages, prompt>>

MapUserPartThrows ==
  /\ cpc = "user" /\ pos < Len(message.content)
  /\ convertUserPart(part).threw
  /\ cpc' = "thrown"
  /\ UNCHANGED postVars
  /\ UNCHANGED <<system, messages, i, pos, splitter, userContent, mapped,
                 languageModelMessages, prompt>>

ReturnUser ==
  /\ cpc = "user" /\ pos = Len(message.content)
  /\ mapped' = Append(mapped, <<[role |-> "user", content |-> userContent]>>)
  /\ i' = i + 1
  /\ cpc' = "flatMap"
  /\ UNCHANGED postVars
  /\ UNCHANGED <<system, messages, pos, splitter, userContent,
                 languageModelMessages, prompt>>

\* the assistant case going on with the splitter of the previous message
BeginAssistantKeepsSplitter ==
  /\ cpc = "flatMap" /\ i < Len(messages)
  /\ message.role = "assistant"
  /\ cpc' = "assistant"
  /\ pos' = 0
  /\ UNCHANGED postVars
  /\ UNCHANGED <<system, messages, i, splitter, userContent, mapped,
                 languageModelMessages, prompt>>

BeginAssistant ==
  /\ cpc = "flatMap" /\ i < Len(messages)
  /\ message.role = "assistant"
  /\ splitter' = assistantMessageSplitter
  /\ cpc' = "assistant"
  /\ pos' = 0
  /\ UNCHANGED postVars
  /\ UNCHANGED <<system, messages, i, userContent, mapped,
                 languageModelMessages, prompt>>

VisitText ==
  /\ cpc = "assistant" /\ pos < Len(message.content)
  /\ part.type = "text"
  /\ splitter' = addTextContentPart(splitter, part)
  /\ pos' = pos + 1
  /\ UNCHANGED postVars
  /\ UNCHANGED <<system, messages, cpc, i, userContent, mapped,
                 languageModelMessages, prompt>>

VisitToolCall ==
  /\ cpc = "assistant" /\ pos < Len(message.content)
  /\ part.type = "tool-call"
  /\ splitter' = addToolCallPart(splitter, part)
  /\ pos' = pos + 1
  /\ UNCHANGED postVars
  /\ UNCHANGED <<system, messages, cpc, i, userContent, mapped,
                 languageModelMessages, prompt>>

VisitUnhandled ==
  /\ cpc = "assistant" /\ pos < Len(message.content)
  /\ part.type \notin {"text", "tool-call"}
  /\ cpc' = "thrown"
  /\ UNCHANGED postVars
  /\ UNCHANGED <<system, messages, i, pos, splitter, userContent, mapped,
                 languageModelMessages, prompt>>

ReturnMessages ==
  /\ cpc = "assistant" /\ pos = Len(message.content)
  /\ mapped' = Append(mapped, getMessages(splitter))
  /\ i' = i + 1
  /\ cpc' = "flatMap"
  /\ UNCHANGED postVars
  /\ UNCHANGED <<system, messages, pos, splitter, userContent,
                 languageModelMessages, prompt>>

\* the default case dropping the message instead of throwing
UnknownRoleDropped ==
  /\ cpc = "flatMap" /\ i < Len(messages)
  /\ message.role \notin {"system", "user", "assistant"}
  /\ mapped' = Append(mapped, <<>>)
  /\ i' = i + 1
  /\ UNCHANGED postVars
  /\ UNCHANGED <<system, messages, cpc, pos, splitter, userContent,
                 languageModelMessages, prompt>>

UnknownRole ==
  /\ cpc = "flatMap" /\ i < Len(messages)
  /\ message.role \notin {"system", "user", "assistant"}
  /\ cpc' = "thrown"
  /\ UNCHANGED postVars
  /\ UNCHANGED <<system, messages, i, pos, splitter, userContent, mapped,
                 languageModelMessages, prompt>>

\* ---- convertToLanguageModelPrompt, lines 92-96
ReturnPrompt ==
  /\ cpc = "flatMap" /\ i = Len(messages)
  /\ languageModelMessages' = languageModelMessages \o Flatten(mapped)
  /\ prompt' = languageModelMessages'
  /\ cpc' = "returned"
  /\ UNCHANGED postVars
  /\ UNCHANGED <<system, messages, i, pos, splitter, userContent, mapped>>

Next ==
  \/ BeginPrompt
  \/ ConvertSystem
  \/ BeginUser \/ MapUserPart \/ MapUserPartThrows \/ ReturnUser
  \/ BeginAssistant \/ VisitText \/ VisitToolCall \/ VisitUnhandled \/ ReturnMessages
  \/ UnknownRole
  \/ ReturnPrompt

NoBody == [system |-> Undefined, messages |-> <<>>, tools |-> Undefined]
NoCall == [inputFormat |-> "", mode |-> [type |-> ""], prompt |-> <<>>]
NoResponse == [status |-> 0, headers |-> {}, body |-> <<>>]

NoResult == [through |-> <<>>, warnings |-> Undefined, rawResponse |-> Undefined]
NoBackendResult == [warnings |-> Undefined, rawResponse |-> Undefined]
\* the locals of a conversion that was never called
NoConversion ==
  [system |-> Undefined, messages |-> <<>>, cpc |-> "idle", i |-> 0, pos |-> 0,
   splitter |-> assistantMessageSplitter, userContent |-> <<>>, mapped |-> <<>>,
   languageModelMessages |-> <<>>, prompt |-> <<>>]

InitLocals ==
  /\ tools = Undefined
  /\ toolChoice = Undefined
  /\ backendResult = NoBackendResult
  /\ result = NoResult
  /\ produced = <<>>
  /\ encoded = <<>>
  /\ bytes = <<>>
  /\ other = NoConversion
  /\ interleaved = FALSE
  /\ i = 0
  /\ pos = 0
  /\ splitter = assistantMessageSplitter
  /\ userContent = <<>>
  /\ mapped = <<>>
  /\ languageModelMessages = <<>>
  /\ prompt = <<>>
  /\ callOptions = NoCall
  /\ response = NoResponse

\* convertToLanguageModelPrompt called on its own
InitDirect ==
  /\ InitLocals
  /\ cpc = "start"
  /\ body = NoBody
  /\ ppc = "direct"
\* a conversation of up to MaxMessages messages, with or without a preamble
Init ==
  /\ system \in Systems
  /\ messages \in SeqsUpTo(ConvMessages, MaxMessages)
  /\ InitDirect

Spec == Init /\ [][Next]_vars

\* one message of any role, converted without a preamble
InitMessage ==
  /\ system = Undefined
  /\ messages \in {<<m>> : m \in SingleMessages}
  /\ InitDirect

SpecMessage == InitMessage /\ [][Next]_vars

\* ---------------------------------------------------------------- POST
BodyMessages ==
  {Msg("user", <<TextPart("hi")>>),
   Msg("user", <<ImagePart("HTTPS://A.TEST")>>),
   Msg("user", <<ImagePart("cat.png")>>),
   Msg("user", <<UnknownPart>>),
   Msg("assistant", <<ToolCallPart("A", "search", "42"), TextPart("x")>>),
   Msg("assistant", <<UnknownPart>>),
   Msg("system", <<TextPart("s1")>>),
   Msg("function", <<>>)}

Bodies ==
  [system : {Undefined, "be terse"},
   messages : SeqsUpTo(BodyMessages, MaxBodyMessages),
   tools : {Undefined, "[search]"}]

\* the native events of a backend stream
Events == {"text-delta", "finish"}

\* `const { system, messages, tools } = await request.json()`
POST_json ==
  /\ ppc = "json"
  /\ ppc' = "streamMessage"
  /\ UNCHANGED <<convVars, body, callOptions, response, streamVars, concVars>>

\* POST calls streamMessage with the request's system, messages and tools and
\* no toolChoice; streamMessage starts evaluating the argument of
\* model.doStream, of which the prompt is converted first
streamMessage ==
  /\ ppc = "streamMessage"
  /\ system' = body.system
  /\ messages' = body.messages
  /\ tools' = body.tools
  /\ toolChoice' = Undefined
  /\ cpc' = "start"
  /\ ppc' = "convert"
  /\ UNCHANGED <<i, pos, splitter, userContent, mapped, languageModelMessages,
                 prompt, body, callOptions, response, backendResult, result,
                 produced, encoded, bytes, concVars>>

\* a mode carrying both fields whatever was supplied
ModeWithPlaceholders(t, c) ==
  [type |-> "regular", tools |-> t, toolChoice |-> c]

\* `{ type: "regular", ...(tools ? { tools } : undefined),
\*    ...(toolChoice ? { toolChoice } : undefined) }`
Mode(t, c) ==
  CASE Truthy(t) /\ Truthy(c) -> [type |-> "regular", tools |-> t, toolChoice |-> c]
    [] Truthy(t) /\ ~Truthy(c) -> [type |-> "regular", tools |-> t]
    [] ~Truthy(t) /\ Truthy(c) -> [type |-> "regular", toolChoice |-> c]
    [] OTHER -> [type |-> "regular"]

\* model.doStream called while the prompt is still being converted
doStreamEarly ==
  /\ ppc = "convert" /\ cpc \in {"flatMap", "returned"}
  /\ callOptions' = [inputFormat |-> "messages", mode |-> Mode(tools, toolChoice),
                     prompt |-> prompt]
  /\ ppc' = "doStream"
  /\ UNCHANGED <<convVars, body, response, streamVars, concVars>>

doStream ==
  /\ ppc = "convert" /\ cpc = "returned"
  /\ callOptions' = [inputFormat |-> "messages", mode |-> Mode(tools, toolChoice),
                     prompt |-> prompt]
  /\ ppc' = "doStream"
  /\ UNCHANGED <<convVars, body, response, streamVars, concVars>>

\* the conversion threw: streamMessage and POST reject, nothing catches
ConversionRejects ==
  /\ ppc = "convert" /\ cpc = "thrown"
  /\ ppc' = "rejected"
  /\ UNCHANGED <<convVars, body, callOptions, response, streamVars, concVars>>

\* the backend failed to start: the rejection propagates through POST
doStreamRejects ==
  /\ ppc = "doStream"
  /\ ppc' = "rejected"
  /\ UNCHANGED <<convVars, body, callOptions, response, streamVars, concVars>>

\* streamMessage resolving without the backend's warnings
streamMessageReturnsNoWarnings ==
  /\ ppc = "doStream"
  /\ \E w \in {Undefined, "[unsupported-setting]"} :
       /\ backendResult' = [warnings |-> w, rawResponse |-> "{headers}"]
       /\ result' = [through |-> <<"assistantEncoderStream", "TextEncoderStream">>,
                     warnings |-> Undefined, rawResponse |-> "{headers}"]
  /\ ppc' = "returned"
  /\ UNCHANGED <<convVars, body, callOptions, response, tools, toolChoice,
                 produced, encoded, bytes, concVars>>

\* model.doStream resolved with { stream, warnings, rawResponse }: streamMessage
\* pipes the stream through assistantEncoderStream and TextEncoderStream and
\* resolves with { stream, warnings, rawResponse }
streamMessageReturns ==
  /\ ppc = "doStream"
  /\ \E w \in {Undefined, "[unsupported-setting]"} :
       /\ backendResult' = [warnings |-> w, rawResponse |-> "{headers}"]
       /\ result' = [through |-> <<"assistantEncoderStream", "TextEncoderStream">>,
                     warnings |-> w, rawResponse |-> "{headers}"]
  /\ ppc' = "returned"
  /\ UNCHANGED <<convVars, body, callOptions, response, tools, toolChoice,
                 produced, encoded, bytes, concVars>>

\* `new Response(stream, { headers: { contentType: ... } })`: the status
\* defaults to 200 and the header is stored under its lower-cased name
Respond ==
  /\ ppc = "returned"
  /\ response' = [status |-> 200,
                  headers |-> {<<"contenttype", "text/plain; charset=utf-8">>},
                  body |-> result.through]
  /\ ppc' = "responded"
  /\ UNCHANGED <<convVars, body, callOptions, streamVars, concVars>>

\* ---- the piped stream, one chunk at a time
\* the backend enqueues its next native event
BackendProduces ==
  /\ ppc \in {"returned", "responded"}
  /\ Len(produced) < MaxEvents
  /\ \E e \in Events : produced' = Append(produced, e)
  /\ UNCHANGED <<convVars, body, ppc, callOptions, response, tools, toolChoice,
                 backendResult, result, encoded, bytes, concVars>>

\* the chunk assistantEncoderStream puts out for a native event
EncodeEvent(e) == "enc(" \o e \o ")"

\* the chunk TextEncoderStream puts out for a string chunk
TextEncode(chunk) == "utf8(" \o chunk \o ")"

\* assistantEncoderStream transforms the oldest event it has not yet read
assistantEncoderStream ==
  /\ ppc \in {"returned", "responded"}
  /\ Len(encoded) < Len(produced)
  /\ encoded' = Append(encoded, EncodeEvent(produced[Len(encoded) + 1]))
  /\ UNCHANGED <<convVars, body, ppc, callOptions, response, tools, toolChoice,
                 backendResult, result, produced, bytes, concVars>>

\* a second stage that reads the newest chunk instead of the oldest
TextEncoderStreamNewestFirst ==
  /\ ppc \in {"returned", "responded"}
  /\ Len(bytes) < Len(encoded)
  /\ bytes' = Append(bytes, TextEncode(encoded[Len(encoded)]))
  /\ UNCHANGED <<convVars, body, ppc, callOptions, response, tools, toolChoice,
                 backendResult, result, produced, encoded, concVars>>

\* TextEncoderStream transforms the oldest chunk it has not yet read
TextEncoderStream ==
  /\ ppc \in {"returned", "responded"}
  /\ Len(bytes) < Len(encoded)
  /\ bytes' = Append(bytes, TextEncode(encoded[Len(bytes) + 1]))
  /\ UNCHANGED <<convVars, body, ppc, callOptions, response, tools, toolChoice,
                 backendResult, result, produced, encoded, concVars>>

NextStream == BackendProduces \/ assistantEncoderStream \/ TextEncoderStream

NextPost ==
  \/ POST_json \/ streamMessage \/ doStream \/ ConversionRejects
  \/ doStreamRejects \/ streamMessageReturns \/ Respond
  \/ NextStream
  \/ Next

InitPost ==
  /\ InitLocals
  /\ body \in Bodies
  /\ ppc = "json"
  /\ cpc = "idle"
  /\ system = Undefined
  /\ messages = <<>>

SpecPost == InitPost /\ [][NextPost]_vars

\* ---------------------------------------------------------------- properties
IsCall(p) == p.type = "tool-call"
IsText(p) == p.type = "text"
\* the part carries a result payload, whatever its value
CarriesResult(p) == IsCall(p) /\ p.result # Undefined

\* what an assistant prompt message holds for an input part
Reduced(p) ==
  IF IsCall(p)
  THEN [type |-> "tool-call", toolCallId |-> p.toolCallId,
        toolName |-> p.toolName, args |-> p.args]
  ELSE p

\* the tool-result entry of a result-carrying call
ResultOf(p) ==
  [type |-> "tool-result", toolCallId |-> p.toolCallId,
   toolName |-> p.toolName, result |-> p.result]

RECURSIVE MapSeq(_, _)
MapSeq(Op(_), seq) ==
  IF seq = <<>> THEN <<>> ELSE <<Op(Head(seq))>> \o MapSeq(Op, Tail(seq))

\* concatenated contents of the messages of one role
RECURSIVE ContentsOf(_, _)
ContentsOf(role, msgs) ==
  IF msgs = <<>> THEN <<>>
  ELSE (IF Head(msgs).role = role THEN Head(msgs).content ELSE <<>>)
         \o ContentsOf(role, Tail(msgs))

\* the input parts that went into the assistant message out[a]
TurnParts(parts, out, a) ==
  LET off == Len(ContentsOf("assistant", SubSeq(out, 1, a - 1)))
  IN SubSeq(parts, off + 1, off + Len(out[a].content))

\* indices of the converted assistant messages
ConvertedAssistants ==
  {k \in 1..Len(mapped) : messages[k].role = "assistant"}

CountRole(role, msgs) == Cardinality({k \in 1..Len(msgs) : msgs[k].role = role})

\* C1: in a returned prompt every tool message comes right after an assistant
\* message that holds a tool-call with the id and name of each of its results;
\* so no two tool messages are adjacent.
ToolFollowsItsAssistant ==
  cpc = "returned" =>
    \A k \in 1..Len(prompt) :
      prompt[k].role = "tool" =>
        /\ k > 1
        /\ prompt[k - 1].role = "assistant"
        /\ \A e \in 1..Len(prompt[k].content) :
             \E c \in 1..Len(prompt[k - 1].content) :
               /\ IsCall(prompt[k - 1].content[c])
               /\ prompt[k - 1].content[c].toolCallId = prompt[k].content[e].toolCallId
               /\ prompt[k - 1].content[c].toolName = prompt[k].content[e].toolName

\* a returned prompt with two tool messages among three assistant messages
TwoToolTurnsReturned ==
  /\ cpc = "returned"
  /\ CountRole("tool", prompt) >= 2
  /\ CountRole("assistant", prompt) >= 3

\* C2 (step): a text part visited while the tool-result list is non-empty
\* moves the current pair to the stash and opens a fresh assistant turn with
\* it; visited while the list is empty it is appended with no rotation.
TextStep ==
  (cpc = "assistant" /\ pos' = pos + 1 /\ IsText(part)) =>
    IF Len(splitter.toolMessage.content) > 0
    THEN splitter' =
           [stash |-> splitter.stash \o <<splitter.assistantMessage, splitter.toolMessage>>,
            assistantMessage |-> [role |-> "assistant", content |-> <<part>>],
            toolMessage |-> [role |-> "tool", content |-> <<>>]]
    ELSE splitter' =
           [stash |-> splitter.stash,
            assistantMessage |->
              [role |-> "assistant",
               content |-> splitter.assistantMessage.content \o <<part>>],
            toolMessage |-> splitter.toolMessage]

\* C2 (consequence): no emitted assistant message holds a text part after a
\* tool-call whose result was present.
NoTextAfterResolvedCall ==
  \A k \in ConvertedAssistants :
    \A a \in 1..Len(mapped[k]) :
      mapped[k][a].role = "assistant" =>
        LET turn == TurnParts(messages[k].content, mapped[k], a)
        IN \A p \in 1..Len(turn) : \A q \in 1..Len(turn) :
             ~(p < q /\ CarriesResult(turn[p]) /\ IsText(turn[q]))

\* C2: the step rule and its consequence together
TextRotatesAfterResult == [][TextStep /\ NoTextAfterResolvedCall']_vars

\* the step rule of C2 alone
TextStepRule == [][TextStep]_vars

\* C3: every tool-call part carrying a result (whatever its value) has its
\* tool-result entry in the tool message right after the assistant message
\* holding the call, pending calls have none, and the number of entries
\* equals the number of result-carrying calls.
EveryResultEmitted ==
  \A k \in ConvertedAssistants :
    /\ Len(ContentsOf("tool", mapped[k])) =
         Len(SelectSeq(messages[k].content, CarriesResult))
    /\ \A a \in 1..Len(mapped[k]) :
         mapped[k][a].role = "assistant" =>
           LET results == MapSeq(ResultOf,
                            SelectSeq(TurnParts(messages[k].content, mapped[k], a),
                                      CarriesResult))
           IN IF results = <<>>
              THEN a = Len(mapped[k]) \/ mapped[k][a + 1].role # "tool"
              ELSE /\ a < Len(mapped[k])
                   /\ mapped[k][a + 1] = [role |-> "tool", content |-> results]

\* C4: an assistant message none of whose parts carries a result converts to
\* exactly one assistant prompt message holding all its parts in order.
PendingOnlyIsOneAssistant ==
  \A k \in ConvertedAssistants :
    (\A p \in 1..Len(messages[k].content) : ~CarriesResult(messages[k].content[p])) =>
      mapped[k] = <<[role |-> "assistant",
                     content |-> MapSeq(Reduced, messages[k].content)]>>

\* texts and pending calls, mixed, converted
PendingMixConverted ==
  \E k \in ConvertedAssistants :
    /\ Len(messages[k].content) >= 3
    /\ \A p \in 1..Len(messages[k].content) : ~CarriesResult(messages[k].content[p])
    /\ \E p \in 1..Len(messages[k].content) : IsText(messages[k].content[p])
    /\ \E p \in 1..Len(messages[k].content) : IsCall(messages[k].content[p])

\* C5: the assistant messages emitted for a message hold, concatenated, its
\* parts in input order, and the tool messages hold, concatenated, the results
\* of its result-carrying calls in input order.
PartsAndResultsPreserved ==
  \A k \in ConvertedAssistants :
    /\ ContentsOf("assistant", mapped[k]) = MapSeq(Reduced, messages[k].content)
    /\ ContentsOf("tool", mapped[k]) =
         MapSeq(ResultOf, SelectSeq(messages[k].content, CarriesResult))

\* per-message conversions, concatenated in input order
RECURSIVE ConcatConverted(_)
ConcatConverted(msgs) ==
  IF msgs = <<>> THEN <<>>
  ELSE convertToLanguageModelMessage(Head(msgs)).value \o ConcatConverted(Tail(msgs))

\* C6: without a preamble the returned prompt is the concatenation, in input
\* order, of the conversions of the single messages; the conversion fails
\* only if the conversion of one of the messages fails.
PromptIsConcatenation ==
  /\ (cpc = "returned" /\ system = Undefined) => prompt = ConcatConverted(messages)
  /\ cpc = "thrown" =>
       \E k \in 1..Len(messages) : convertToLanguageModelMessage(messages[k]).threw

\* two assistant messages, each split into several prompt messages
TwoSplitMessagesReturned ==
  /\ cpc = "returned" /\ system = Undefined
  /\ Len(messages) = MaxMessages
  /\ \A k \in 1..2 : messages[k].role = "assistant" /\ Len(mapped[k]) >= 2

\* C7: a present system argument (the empty string included) is the first
\* prompt message and the conversions follow; an absent one (null or
\* undefined) adds nothing.
SystemPreamble ==
  cpc = "returned" =>
    IF system \in {Null, Undefined}
    THEN prompt = ConcatConverted(messages)
    ELSE prompt = <<[role |-> "system", content |-> system]>> \o ConcatConverted(messages)

\* the empty string as preamble, followed by converted messages
EmptyPreambleReturned ==
  /\ cpc = "returned"
  /\ system = ""
  /\ Len(prompt) >= 2
  /\ prompt[1] = [role |-> "system", content |-> ""]

\* C8: a user message with well-formed image references converts to one user
\* prompt message with as many parts in the same order, texts unchanged and
\* every image holding the locator its reference parses to.
WellFormedUser(m) ==
  /\ m.role = "user"
  /\ \A p \in 1..Len(m.content) :
       \/ IsText(m.content[p])
       \/ m.content[p].type = "image" /\ ~URL(m.content[p].image).threw

Located(p) ==
  IF IsText(p) THEN p ELSE [type |-> "image", image |-> URL(p.image).value]

UserPartsMapOneToOne ==
  /\ \A k \in 1..Len(mapped) :
       messages[k].role = "user" =>
         /\ WellFormedUser(messages[k])
         /\ mapped[k] = <<[role |-> "user",
                           content |-> MapSeq(Located, messages[k].content)]>>
  /\ (cpc = "thrown" /\ messages[i + 1].role = "user") => ~WellFormedUser(messages[i + 1])

\* a user message of texts and images converted
MixedUserConverted ==
  \E k \in 1..Len(mapped) :
    /\ messages[k].role = "user"
    /\ Len(messages[k].content) >= 3
    /\ \E p \in 1..3 : IsText(messages[k].content[p])
    /\ \E p \in 1..3 : /\ messages[k].content[p].type = "image"
                       /\ mapped[k][1].content[p].image = "URL{https://a.test/}"
                       /\ messages[k].content[p].image = "HTTPS://A.TEST"

\* C9: a conversation with an unknown role, an unknown part type or an invalid
\* image reference never yields a prompt: the conversion ends thrown, with
\* nothing returned.
Malformed(m) ==
  \/ m.role \notin {"system", "user", "assistant"}
  \/ m.role = "user" /\ ~WellFormedUser(m)
  \/ /\ m.role = "assistant"
     /\ \E p \in 1..Len(m.content) : ~IsText(m.content[p]) /\ ~IsCall(m.content[p])

MalformedFailsWhole ==
  (\E k \in 1..Len(messages) : Malformed(messages[k])) =>
    /\ cpc \in {"start", "flatMap", "user", "assistant", "thrown"}
    /\ prompt = <<>>

\* the second message is the malformed one; the first was already converted
ThrownAfterGoodMessage ==
  /\ cpc = "thrown"
  /\ Len(messages) >= 2
  /\ i = 1
  /\ Len(mapped[1]) >= 2
  /\ ~Malformed(messages[1])

\* C10: a request whose conversion failed is answered with a 4xx response.
ConversionFailureIs4xx ==
  (ppc \in {"rejected", "responded"} /\ cpc = "thrown") =>
    response.status \in 400..499

\* C11: within a request the body is read before the conversion starts,
\* model.doStream is called only once the conversion has returned, with the
\* prompt it returned, and a Response is built only after that call; a request
\* whose conversion threw never reaches model.doStream and gets no body bytes.
ConvertBeforeInvoke ==
  /\ cpc # "idle" => ppc \notin {"json", "streamMessage"}
  /\ callOptions # NoCall => cpc = "returned" /\ callOptions.prompt = prompt
  /\ result # NoResult => callOptions # NoCall
  /\ response # NoResponse => result # NoResult
  /\ produced # <<>> => result # NoResult
  /\ cpc = "thrown" =>
       /\ callOptions = NoCall /\ result = NoResult /\ response = NoResponse
       /\ produced = <<>> /\ bytes = <<>>

\* a request answered after a conversion of several prompt messages, with
\* body bytes delivered
RespondedWithBytes ==
  /\ ppc = "responded"
  /\ Len(callOptions.prompt) >= 3
  /\ bytes # <<>>

\* ---------------------------------------------------------------- streamMessage
\* streamMessage called on its own, with or without tools and a tool choice
ToolsArgs == {Undefined, Null, "[]", "[search]"}
ToolChoiceArgs == {Undefined, Null, "{type:auto}"}

InitStreamMessage ==
  /\ body = NoBody
  /\ system \in {Undefined, "be terse"}
  /\ messages \in SeqsUpTo(BodyMessages, 1)
  /\ tools \in ToolsArgs
  /\ toolChoice \in ToolChoiceArgs
  /\ ppc = "convert"
  /\ cpc = "start"
  /\ callOptions = NoCall
  /\ response = NoResponse
  /\ backendResult = NoBackendResult
  /\ result = NoResult
  /\ produced = <<>> /\ encoded = <<>> /\ bytes = <<>>
  /\ other = NoConversion /\ interleaved = FALSE
  /\ i = 0 /\ pos = 0
  /\ splitter = assistantMessageSplitter
  /\ userContent = <<>> /\ mapped = <<>>
  /\ languageModelMessages = <<>> /\ prompt = <<>>

NextStreamMessage ==
  \/ doStream \/ ConversionRejects \/ doStreamRejects \/ streamMessageReturns
  \/ NextStream
  \/ Next

SpecStreamMessage == InitStreamMessage /\ [][NextStreamMessage]_vars

\* an argument that was passed (null counts as not passed, like undefined)
Supplied(v) == v \notin {Undefined, Null}

\* C12: the descriptor model.doStream is called with has inputFormat
\* "messages" and mode type "regular"; the mode has a tools field exactly when
\* tools were supplied, a toolChoice field exactly when a tool choice was
\* supplied, each holding the supplied value, and no other field.
DescriptorOmitsUnsupplied ==
  callOptions # NoCall =>
    /\ callOptions.inputFormat = "messages"
    /\ callOptions.mode.type = "regular"
    /\ DOMAIN callOptions.mode \subseteq {"type", "tools", "toolChoice"}
    /\ ("tools" \in DOMAIN callOptions.mode) <=> Supplied(tools)
    /\ ("toolChoice" \in DOMAIN callOptions.mode) <=> Supplied(toolChoice)
    /\ Supplied(tools) => callOptions.mode.tools = tools
    /\ Supplied(toolChoice) => callOptions.mode.toolChoice = toolChoice

\* the backend called with an empty tool list and no tool choice
CalledWithToolsOnly ==
  /\ callOptions # NoCall
  /\ tools = "[]"
  /\ toolChoice = Undefined
  /\ DOMAIN callOptions.mode = {"type", "tools"}

\* C13 (as stated): what a consumer reads from the stream streamMessage
\* returned are the backend's native events themselves, and warnings and
\* rawResponse are the backend's.
ReturnedStreamIsRaw ==
  result # NoResult =>
    /\ \A k \in 1..Len(bytes) : bytes[k] = produced[k]
    /\ result.warnings = backendResult.warnings
    /\ result.rawResponse = backendResult.rawResponse

\* C13: the stream streamMessage returns is the backend's stream piped through
\* assistantEncoderStream and then TextEncoderStream, so a consumer reads, in
\* order, the text encoding of every chunk the assistant encoder put out and
\* never a native event; warnings and rawResponse are the backend's.
ReturnedStreamIsPiped ==
  result # NoResult =>
    /\ result.through = <<"assistantEncoderStream", "TextEncoderStream">>
    /\ Len(bytes) <= Len(encoded)
    /\ \A k \in 1..Len(bytes) :
         bytes[k] = TextEncode(encoded[k]) /\ bytes[k] \notin Events
    /\ result.warnings = backendResult.warnings
    /\ result.rawResponse = backendResult.rawResponse

\* streamMessage returned with a warning and its consumer has read two chunks
WarnedStreamRead ==
  /\ ppc = "returned"
  /\ result.warnings = "[unsupported-setting]"
  /\ Len(bytes) >= 2

\* C14: a request whose conversion and backend call succeeded is answered
\* with status 200, the piped stream as body and a Content-Type header of
\* text/plain; charset=utf-8.
OkResponseIsTextPlain ==
  ppc = "responded" =>
    /\ response.status = 200
    /\ response.body = result.through
    /\ <<"content-type", "text/plain; charset=utf-8">> \in response.headers

Locals ==
  [system |-> system, messages |-> messages, cpc |-> cpc, i |-> i, pos |-> pos,
   splitter |-> splitter, userContent |-> userContent, mapped |-> mapped,
   languageModelMessages |-> languageModelMessages, prompt |-> prompt]

\* a switch with the splitter state kept in one place for both conversions
SwitchSharingSplitter ==
  /\ other.cpc \notin {"idle", "returned", "thrown"}
  /\ system' = other.system /\ messages' = other.messages
  /\ cpc' = other.cpc /\ i' = other.i /\ pos' = other.pos
  /\ splitter' = splitter
  /\ userContent' = other.userContent /\ mapped' = other.mapped
  /\ languageModelMessages' = other.languageModelMessages
  /\ prompt' = other.prompt
  /\ other' = Locals
  /\ interleaved' = (interleaved \/ (cpc \in {"user", "assistant"}
                                      /\ other.cpc \in {"user", "assistant"}))
  /\ UNCHANGED <<body, ppc, callOptions, response, streamVars>>

\* the running conversion is suspended and the other one goes on: each call
\* has its own parameters, local array and splitter closure
Switch ==
  /\ other.cpc \notin {"idle", "returned", "thrown"}
  /\ system' = other.system /\ messages' = other.messages
  /\ cpc' = other.cpc /\ i' = other.i /\ pos' = other.pos
  /\ splitter' = other.splitter
  /\ userContent' = other.userContent /\ mapped' = other.mapped
  /\ languageModelMessages' = other.languageModelMessages
  /\ prompt' = other.prompt
  /\ other' = Locals
  /\ interleaved' = (interleaved \/ (cpc \in {"user", "assistant"}
                                      /\ other.cpc \in {"user", "assistant"}))
  /\ UNCHANGED <<body, ppc, callOptions, response, streamVars>>

InitConcurrent ==
  /\ body = NoBody /\ ppc = "direct"
  /\ callOptions = NoCall /\ response = NoResponse
  /\ tools = Undefined /\ toolChoice = Undefined
  /\ backendResult = NoBackendResult /\ result = NoResult
  /\ produced = <<>> /\ encoded = <<>> /\ bytes = <<>>
  /\ interleaved = FALSE
  /\ system = Undefined
  /\ messages \in {<<m>> : m \in ConvMessages}
  /\ cpc = "start"
  /\ i = 0 /\ pos = 0
  /\ splitter = assistantMessageSplitter
  /\ userContent = <<>> /\ mapped = <<>>
  /\ languageModelMessages = <<>> /\ prompt = <<>>
  /\ \E m \in ConvMessages :
       other = [NoConversion EXCEPT !.messages = <<m>>, !.cpc = "start"]

NextConcurrent == Switch \/ Next

SpecConcurrent == InitConcurrent /\ [][NextConcurrent]_vars

\* the outcome of a conversion with locals c is the one it has when run alone
AsAlone(c) ==
  /\ c.cpc = "returned" =>
       /\ c.prompt = ConcatConverted(c.messages)
       /\ \A k \in 1..Len(c.messages) : ~convertToLanguageModelMessage(c.messages[k]).threw
  /\ c.cpc = "thrown" =>
       \E k \in 1..Len(c.messages) : convertToLanguageModelMessage(c.messages[k]).threw

\* C15: two conversions whose steps interleave in any order each end as they
\* would alone: same prompt, or the same failure; nothing of one shows in the
\* prompt of the other.
ConversionsDoNotInterfere == AsAlone(Locals) /\ AsAlone(other)

\* two different assistant messages with parts, converted with their steps
\* interleaved, one of them split into several prompt messages
InterleavedBothReturned ==
  /\ interleaved
  /\ cpc = "returned" /\ other.cpc = "returned"
  /\ messages # other.messages
  /\ Len(prompt) >= 2 /\ Len(other.prompt) >= 1
  /\ prompt[1].role = "assistant" /\ other.prompt[1].role = "assistant"
  /\ prompt[1].content # <<>> /\ other.prompt[1].content # <<>>

\* ---------------------------------------------------------------- splitter steps
IsPrefix(p, q) == Len(p) <= Len(q) /\ SubSeq(q, 1, Len(p)) = p

\* the emitted assistant message that holds the n-th input part
TurnOf(out, n) ==
  CHOOSE a \in 1..Len(out) :
    /\ out[a].role = "assistant"
    /\ LET off == Len(ContentsOf("assistant", SubSeq(out, 1, a - 1)))
       IN off < n /\ n <= off + Len(out[a].content)

\* C16: an assistant message without parts converts, without error, to one
\* assistant prompt message with empty content and no tool message.
EmptyAssistantIsOneMessage ==
  /\ \A k \in ConvertedAssistants :
       messages[k].content = <<>> =>
         mapped[k] = <<[role |-> "assistant", content |-> <<>>]>>
  /\ cpc = "thrown" =>
       ~(messages[i + 1].role = "assistant" /\ messages[i + 1].content = <<>>)

\* an empty assistant message converted inside a longer conversation
EmptyAssistantConverted ==
  /\ cpc = "returned"
  /\ Len(messages) >= 2
  /\ \E k \in ConvertedAssistants : messages[k].content = <<>>

\* C18 (step): visiting a tool-call part leaves the stash as it is and
\* appends the call to the current assistant message.
ToolCallStep ==
  (cpc = "assistant" /\ pos' = pos + 1 /\ IsCall(part)) =>
    /\ splitter'.stash = splitter.stash
    /\ splitter'.assistantMessage.content =
         Append(splitter.assistantMessage.content, Reduced(part))

\* C18 (consequence): the calls of a run of consecutive tool-call parts are
\* all in one assistant message, and the results of the run are in the tool
\* message right after it.
RunsShareTurn ==
  \A k \in ConvertedAssistants :
    LET c == messages[k].content
        out == mapped[k]
    IN \A p \in 1..Len(c) : \A q \in p..Len(c) :
         (\A r \in p..q : IsCall(c[r])) =>
           /\ TurnOf(out, p) = TurnOf(out, q)
           /\ CarriesResult(c[q]) =>
                /\ TurnOf(out, p) < Len(out)
                /\ out[TurnOf(out, p) + 1].role = "tool"
                /\ \E e \in 1..Len(out[TurnOf(out, p) + 1].content) :
                     out[TurnOf(out, p) + 1].content[e] = ResultOf(c[q])

\* C18: the step rule and its consequence together
ToolCallNeverRotates == [][ToolCallStep /\ RunsShareTurn']_vars

\* the step rule of C18 alone
ToolCallStepRule == [][ToolCallStep]_vars

\* the stash is a list of (assistant, tool) pairs
StashAlternates ==
  /\ Len(splitter.stash) % 2 = 0
  /\ \A n \in 1..Len(splitter.stash) :
       splitter.stash[n].role = (IF n % 2 = 1 THEN "assistant" ELSE "tool")

\* C19: while the parts of a message are visited and its messages returned,
\* the stash only grows at its end, so a stashed pair never changes; the
\* stash always has even length and alternates assistant, tool.
StashedPairsAreFinal ==
  [][/\ cpc = "assistant" => IsPrefix(splitter.stash, splitter'.stash)
     /\ (cpc = "assistant" /\ cpc' = "flatMap") =>
          IsPrefix(splitter.stash, mapped'[Len(mapped')])
     /\ StashAlternates']_vars

\* two pairs stashed and a part visited after the second rotation
TwoPairsStashed ==
  /\ cpc = "assistant"
  /\ Len(splitter.stash) = 4
  /\ Len(splitter.assistantMessage.content) >= 1

\* C20: of the prompt messages emitted for an assistant message, every tool
\* message holds a result; every assistant message holds a part unless the
\* message has no parts (then it is the only message emitted); the first
\* is an assistant message and every later assistant message begins with a
\* text part and comes right after a tool message.
NoEmptyTurns ==
  \A k \in ConvertedAssistants :
    LET c == messages[k].content
        out == mapped[k]
    IN /\ Len(out) >= 1 /\ out[1].role = "assistant"
       /\ c = <<>> => Len(out) = 1
       /\ \A a \in 1..Len(out) :
            /\ out[a].role \in {"assistant", "tool"}
            /\ out[a].role = "tool" => out[a].content # <<>>
            /\ (out[a].role = "assistant" /\ c # <<>>) => out[a].content # <<>>
            /\ (out[a].role = "assistant" /\ a > 1) =>
                 /\ IsText(out[a].content[1])
                 /\ out[a - 1].role = "tool"

\* a message emitted as two pairs and a trailing assistant message
ThreeTurnsEmitted ==
  \E k \in ConvertedAssistants :
    /\ Len(mapped[k]) = 5
    /\ mapped[k][5].role = "assistant"
====
